---- MODULE Spec2Model ----
(***************************************************************************)
(* Token-authenticated, context-scoped SQL access layer of the call-bell   *)
(* report app: the token cache of SqlClientBase / OboSqlClient, the two    *)
(* credential flows of auth/token_provider.py, run_query of the token      *)
(* injecting clients, and read_tvf / run_query_df of SqlThings.            *)
(*                                                                         *)
(* Time is in whole seconds.  Local computation takes no time; the clock   *)
(* advances between calls and while a call waits on the network (the       *)
(* credential exchange, the connection, the statement).                    *)
(***************************************************************************)
EXTENDS Integers, Sequences, FiniteSets, TLC

\* ------------------------------------------------------------------ bounds
MaxNow == 3
MaxExchanges == 2
NumCallers == 3
NumSessions == 2
NumConns == 2
NumStageNames == 2
MaxRows == 2
MaxPermRows == 3
MaxTokenLen == 3
MaxCacheNow == 20
CacheTickSecs == 5
NumUploaders == 2

\* ------------------------------------------------------- program constants
\* SqlClientBase._REFRESH_BUFFER_SECS (the literal 300 in OboSqlClient)
REFRESH_BUFFER_SECS == 300

\* app.py:164: @st.cache_data(show_spinner=True, ttl=15)
LOAD_DATA_TTL == 15

\* data_loader.py:79
cache_timer_today == 50

\* ------------------------------------------------------------ value domains
Threads == 1..NumCallers
MainThread == 1

\* self._cached_token = None
NoToken == 0

\* msal_result.get("expires_in", 0): the key may be missing
NoExpiresIn == -1
ExpiresInValues == {NoExpiresIn, 1, REFRESH_BUFFER_SECS, REFRESH_BUFFER_SECS + 1}

\* (error, error_description) pairs of a failed exchange
UpstreamErrors ==
    { <<"invalid_client", "AADSTS7000215">>, <<"invalid_grant", "AADSTS65001">> }

\* The result dict of acquire_token_for_client / acquire_token_on_behalf_of.
MsalResults ==
    [has_token : {TRUE}, expires_in : ExpiresInValues,
     error : {"none"}, error_description : {"none"}]
    \cup
    { [has_token |-> FALSE, expires_in |-> NoExpiresIn,
       error |-> e[1], error_description |-> e[2]] : e \in UpstreamErrors }

\* no exchange answered yet
NoMsalResult ==
    [has_token |-> FALSE, expires_in |-> NoExpiresIn,
     error |-> "none", error_description |-> "none"]

\* X-MS-TOKEN-AAD-ACCESS-TOKEN in the request context: missing, empty, a token
HeaderValues == {"absent", "empty", "user_token"}

\* The two client/provider pairings of the repository:
\*   "base": SqlClientBase subclass + get_token_provider(...)
\*   "obo" : OboSqlClient + app.exchange_header_for_sql_token
Backends == {"base", "obo"}

\* ---- SqlThings (helper/common_sql.py)

Sessions == 1..NumSessions
Conns == 1..NumConns

\* the user of a dashboard session
UserOf(s) == IF s = 1 THEN "alice" ELSE "bob"

Pair(k, v) == [key |-> k, value |-> v]

\* user_context=None, and a mapping given as its pairs in iteration order
NoContext == [given |-> FALSE, pairs |-> <<>>]
Context(pairs) == [given |-> TRUE, pairs |-> pairs]

\* The identity contexts a session may pass, as (key, value) pairs in the
\* mapping's iteration order: an empty mapping, one with an empty and a None
\* value, and the mapping data_loader.validate_env builds (lines 59-68).
ContextsOf(s) ==
    { NoContext,
      Context(<<>>),
      Context(<<Pair("app_user", UserOf(s)), Pair("app_user_oid", ""),
                Pair("source_app", "None")>>),
      Context(<<Pair("source_app", "call-bell-report-app"),
                Pair("app_user", UserOf(s)), Pair("app_user_oid", "oid")>>) }

ContextKeys == {"app_user", "app_user_oid", "source_app"}

VARIABLES
    now,            \* datetime.now().timestamp()
    backend,        \* which client/provider pairing this instance is
    cached_token,   \* self._cached_token (NoToken = None, else a token id)
    token_expiry,   \* self._token_expiry
    header,         \* the delegation header of the current request context
    upstream,       \* the answers the identity provider may give (fixed)
    exchanges,      \* history: every token a flow returned; a token's id is its index
    pc,             \* each caller's position
    loc,            \* each caller's locals and the record of its call
    pool_free,      \* the engine's pool: the connections not checked out
    session_ctx,    \* per connection: the server-side session context
    sql_pc,         \* the position of the SqlThings call in progress
    sql_call,       \* its session, its locals and the record of the call
    stage_tables,   \* schema temp: per staging name, its rows (Absent: no table)
    stage_perm,     \* the rows of the permanent staging table
    stage_pc,       \* per uploader: the position of its staging call
    stage_call,     \* per uploader: its locals and the record of the call
    enc_token,      \* the token string handed to the encoders
    enc_out,        \* per encoder, the bytes it produced
    cache_now,      \* the clock st.cache_data reads
    st_cache,       \* st.cache_data: per cached function and arguments, its entry
    load_call       \* the last cached-loader call of a session

tokvars == <<now, backend, cached_token, token_expiry, header, upstream, exchanges, pc, loc>>

sqlvars == <<pool_free, session_ctx, sql_pc, sql_call>>

stagevars == <<stage_tables, stage_perm, stage_pc, stage_call>>

encvars == <<enc_token, enc_out>>

cachevars == <<cache_now, st_cache, load_call>>

vars == <<tokvars, sqlvars, stagevars, encvars, cachevars>>

\* ------------------------------------------------------------ pure helpers

\* base.py:50: deadline = self._token_expiry - self._REFRESH_BUFFER_SECS
DeadlineNoBuffer(expiry) == expiry
DeadlineSignSlip(expiry) == expiry + REFRESH_BUFFER_SECS
Deadline(expiry) == expiry - REFRESH_BUFFER_SECS

\* base.py:51 / obo_sql_client.py:35: (not self._cached_token) or (now > deadline)
NeedsRefreshAtOrPast(tok, deadline, t) == (tok = NoToken) \/ (t >= deadline)
NeedsRefresh(tok, deadline, t) == (tok = NoToken) \/ (t > deadline)

\* token_provider.py:120-127: _get_easy_auth_token -> str | None
GetEasyAuthToken(h) ==
    IF h = "absent" THEN "None" ELSE IF h = "empty" THEN "" ELSE "jwt"

\* truthiness of a str | None
Truthy(s) == s # "None" /\ s # ""

\* token_provider.py:144-148: _provide picks the flow on every invocation
ProvideFlowFixed(h) == "client_credentials"
ProvideFlow(h) ==
    IF Truthy(GetEasyAuthToken(h)) THEN "obo" ELSE "client_credentials"

\* app.py:135-142: exchange_header_for_sql_token
ExchangeHeaderFlowInverted(h) ==
    IF Truthy(GetEasyAuthToken(h)) THEN "client_credentials" ELSE "obo"
ExchangeHeaderFlow(h) ==
    IF ~Truthy(GetEasyAuthToken(h)) THEN "client_credentials" ELSE "obo"

SelectFlow(b, h) == IF b = "base" THEN ProvideFlow(h) ELSE ExchangeHeaderFlow(h)

\* token_provider.py:53-59: _token_to_result
ExpiresOnDefaultHour(t, r) == t + (IF r.expires_in = NoExpiresIn THEN 3600 ELSE r.expires_in)
ExpiresOnTtlOnly(t, r) == IF r.expires_in = NoExpiresIn THEN 0 ELSE r.expires_in
ExpiresOn(t, r) == t + (IF r.expires_in = NoExpiresIn THEN 0 ELSE r.expires_in)

\* token_provider.py:71-75, 94-98: "access_token" not in result -> raise
FlowRaises(r) == ~r.has_token

\* token_provider.py:72, 95 / app.py:102, 145: the raise leaves the call; where
\* the caller goes after a failed exchange
OnExchangeFailureRetry == "provide"
OnExchangeFailureStore == "store_token"
OnExchangeFailure == "done"

\* A caller's locals (deadline, flow, resp, resp_exp, ret) and the record of
\* its current call (what it saw on entry, what it did, how it ended).
InitLoc ==
    [op |-> "none", deadline |-> 0, flow |-> "none", hdr |-> "absent",
     entry_tok |-> NoToken, entry_exp |-> 0, check_now |-> 0, seen |-> NoToken,
     refreshed |-> FALSE, msal |-> NoMsalResult, exch_at |-> 0,
     resp |-> NoToken, resp_exp |-> 0,
     n_exch |-> 0, n_conn |-> 0, n_exec |-> 0, conn_open |-> FALSE,
     returned |-> FALSE, ret |-> NoToken, ret_at |-> 0, ret_exp |-> 0,
     outcome |-> "none", err |-> "none", err_code |-> "none", err_desc |-> "none"]

\* -------------------------------------------------------------------- Init
TokInit ==
    /\ now = 0
    /\ backend \in Backends
    /\ cached_token = NoToken
    /\ token_expiry = 0
    /\ header \in HeaderValues
    /\ upstream = MsalResults
    /\ exchanges = <<>>
    /\ pc = [t \in Threads |-> "idle"]
    /\ loc = [t \in Threads |-> InitLoc]

\* The locals of a SqlThings call and the record of that call.
InitSqlCall ==
    [session |-> 0, op |-> "none", ctx |-> NoContext, conn |-> 0, holds |-> FALSE,
     loader |-> "none", query_str |-> TRUE, well_formed |-> TRUE,
     idx |-> 1, issued |-> <<>>, n_logs |-> 0, tx |-> "none",
     outcome |-> "none", err |-> "none"]

\* common_sql.py:19-26, 46-71: the engine and its pool; no session context set
SqlInit ==
    /\ pool_free = Conns
    /\ session_ctx = [c \in Conns |-> [k \in ContextKeys |-> "unset"]]
    /\ sql_pc = "idle"
    /\ sql_call = InitSqlCall

\* common_sql.py:125: the names _upload_to_temp can generate
StageNames == 1..NumStageNames

\* the row counts of a payload DataFrame (0: data_df.empty)
PayloadRows == 0..MaxRows

\* a table of schema temp: absent, or present with its rows
Absent == [exists |-> FALSE, rows |-> 0]
Table(rows) == [exists |-> TRUE, rows |-> rows]

\* common_sql.py:151-196: the one-shot uploads
TempUploads ==
    {"upsert_data", "merge_data_full", "bulk_update_scoped", "merge_data_scoped"}

\* The locals of an upload (source_table) and the record of the call: the
\* tables on entry, the statements it ran, each in its own engine.begin()
\* transaction, and how it ended.
InitStageCall ==
    [op |-> "none", rows |-> 0, name |-> 0,
     entry_tables |-> [n \in StageNames |-> Absent],
     steps |-> <<>>, n_logs |-> 0, outcome |-> "none", err |-> "none"]

\* the callers of the staging operations of one SqlThings
Uploaders == 1..NumUploaders
MainUploader == 1

StageInit ==
    /\ stage_tables = [n \in StageNames |-> Absent]
    /\ stage_perm = 0
    /\ stage_pc = [u \in Uploaders |-> "idle"]
    /\ stage_call = [u \in Uploaders |-> InitStageCall]

\* the places that build the SQL_COPT_SS_ACCESS_TOKEN attribute value
Encoders == {"mssql", "pyodbc", "obo", "sqlthings"}

NotEncoded == [done |-> FALSE, bytes |-> <<>>]

\* no token is being encoded
EncIdle ==
    /\ enc_token = <<>>
    /\ enc_out = [e \in Encoders |-> NotEncoded]

\* the functions under st.cache_data
CachedLoaders == {"load_data", "load_home_metrics", "load_homes"}

\* app.py:165, 179: hours; data_loader.py:81: home_name (start and end fixed);
\* data_loader.py:93: no argument
LoaderArgs(f) ==
    CASE f = "load_data" -> {"24", "48"}
      [] f = "load_home_metrics" -> {"None", "home_a"}
      [] OTHER -> {"()"}

CacheKeys == { k \in CachedLoaders \X {"24", "48", "None", "home_a", "()"} :
                 k[2] \in LoaderArgs(k[1]) }

\* app.py:164 / data_loader.py:80, 92
Ttl(f) == IF f = "load_data" THEN LOAD_DATA_TTL ELSE cache_timer_today

NoValue == [kind |-> "none", owner |-> "nobody"]
NoEntry == [present |-> FALSE, at |-> 0, value |-> NoValue]

InitLoadCall ==
    [session |-> 0, loader |-> "none", arg |-> "none", hit |-> FALSE,
     outcome |-> "none", value |-> NoValue]

CacheInit ==
    /\ cache_now = 0
    /\ st_cache = [k \in CacheKeys |-> NoEntry]
    /\ load_call = InitLoadCall

\* ------------------------------------------------- _ensure_valid_token steps

Active(t) == pc[t] \notin {"idle", "done"}

\* A call starts while the exchanges it and the calls in progress may need
\* still fit the history bound, or when the cached token needs no exchange.
CanBegin(t, op, cap) ==
    /\ pc[t] \in {"idle", "done"}
    /\ \/ Len(exchanges) + Cardinality({u \in Threads : Active(u)}) < cap
       \/ /\ op = "run_query"
          /\ cached_token # NoToken
          /\ now + REFRESH_BUFFER_SECS <= token_expiry

Begin(t, op, cap) ==
    /\ CanBegin(t, op, cap)
    /\ pc' = [pc EXCEPT ![t] = "deadline"]
    /\ loc' = [loc EXCEPT ![t] =
                 [InitLoc EXCEPT !.op = op, !.hdr = header,
                                 !.entry_tok = cached_token,
                                 !.entry_exp = token_expiry]]
    /\ UNCHANGED <<now, backend, cached_token, token_expiry, header, upstream, exchanges, sqlvars, stagevars, encvars, cachevars>>

\* pyodbc_client.py:60 / mssql_client.py:52 / obo_sql_client.py:61
BeginRunQuery(t) == Begin(t, "run_query", MaxExchanges)

\* a direct call of _ensure_valid_token; every caller may need one exchange
BeginEnsure(t) == Begin(t, "ensure", NumCallers)

\* base.py:50
ReadDeadline(t) ==
    /\ pc[t] = "deadline"
    /\ loc' = [loc EXCEPT ![t].deadline = Deadline(token_expiry)]
    /\ pc' = [pc EXCEPT ![t] = "check"]
    /\ UNCHANGED <<now, backend, cached_token, token_expiry, header, upstream, exchanges, sqlvars, stagevars, encvars, cachevars>>

\* base.py:51
Check(t) ==
    /\ pc[t] = "check"
    /\ LET refresh == NeedsRefresh(cached_token, loc[t].deadline, now) IN
       /\ loc' = [loc EXCEPT ![t].check_now = now, ![t].seen = cached_token,
                             ![t].refreshed = refresh]
       /\ pc' = [pc EXCEPT ![t] = IF refresh THEN "provide" ELSE "return"]
    /\ UNCHANGED <<now, backend, cached_token, token_expiry, header, upstream, exchanges, sqlvars, stagevars, encvars, cachevars>>

\* base.py:52 -> token_provider.py:144-148 / app.py:129-142: read the header,
\* pick the flow, send the exchange
Provide(t) ==
    /\ pc[t] = "provide"
    /\ loc' = [loc EXCEPT ![t].flow = SelectFlow(backend, header),
                          ![t].n_exch = @ + 1]
    /\ pc' = [pc EXCEPT ![t] = "exchange"]
    /\ UNCHANGED <<now, backend, cached_token, token_expiry, header, upstream, exchanges, sqlvars, stagevars, encvars, cachevars>>

\* What the history keeps of a token a flow returned.
TokenRecord(t, exp) ==
    [flow |-> loc[t].flow, expires_on |-> exp, seen |-> loc[t].seen,
     live |-> exp > now]

\* token_provider.py:62-101 / app.py:98-148: the exchange answers; the flow
\* raises when the answer holds no access token, else returns
\* {access_token, expires_on}
Exchange(t) ==
    /\ pc[t] = "exchange"
    /\ \E r \in upstream :
         IF FlowRaises(r)
         THEN /\ loc' = [loc EXCEPT ![t].msal = r, ![t].exch_at = now,
                                    ![t].outcome = "raise", ![t].err = "exchange",
                                    ![t].err_code = r.error,
                                    ![t].err_desc = r.error_description]
              /\ pc' = [pc EXCEPT ![t] = OnExchangeFailure]
              /\ UNCHANGED exchanges
         ELSE /\ exchanges' = Append(exchanges, TokenRecord(t, ExpiresOn(now, r)))
              /\ loc' = [loc EXCEPT ![t].msal = r, ![t].exch_at = now,
                                    ![t].resp = Len(exchanges) + 1,
                                    ![t].resp_exp = ExpiresOn(now, r)]
              /\ pc' = [pc EXCEPT ![t] = "store_token"]
    /\ UNCHANGED <<now, backend, cached_token, token_expiry, header, upstream, sqlvars, stagevars, encvars, cachevars>>

\* base.py:53
StoreToken(t) ==
    /\ pc[t] = "store_token"
    /\ cached_token' = loc[t].resp
    /\ pc' = [pc EXCEPT ![t] = "store_expiry"]
    /\ UNCHANGED <<now, backend, token_expiry, header, upstream, exchanges, loc, sqlvars, stagevars, encvars, cachevars>>

\* base.py:54
StoreExpiry(t) ==
    /\ pc[t] = "store_expiry"
    /\ token_expiry' = loc[t].resp_exp
    /\ pc' = [pc EXCEPT ![t] = "return"]
    /\ UNCHANGED <<now, backend, cached_token, header, upstream, exchanges, loc, sqlvars, stagevars, encvars, cachevars>>

\* base.py:55
ReturnToken(t) ==
    /\ pc[t] = "return"
    /\ loc' = [loc EXCEPT ![t].returned = TRUE,
                          ![t].ret = cached_token, ![t].ret_at = now,
                          ![t].ret_exp = token_expiry,
                          ![t].outcome = IF loc[t].op = "ensure" THEN "ok" ELSE @]
    /\ pc' = [pc EXCEPT ![t] = IF loc[t].op = "ensure" THEN "done" ELSE "connect"]
    /\ UNCHANGED <<now, backend, cached_token, token_expiry, header, upstream, exchanges, sqlvars, stagevars, encvars, cachevars>>

\* ------------------------------------------------------------- run_query

\* pyodbc_client.py:64-67 / mssql_client.py:56-59 / obo_sql_client.py:72-75
Connect(t) ==
    /\ pc[t] = "connect"
    /\ \E ok \in BOOLEAN :
         IF ok
         THEN /\ loc' = [loc EXCEPT ![t].n_conn = @ + 1, ![t].conn_open = TRUE]
              /\ pc' = [pc EXCEPT ![t] = "execute"]
         ELSE /\ loc' = [loc EXCEPT ![t].n_conn = @ + 1, ![t].outcome = "raise",
                                    ![t].err = "connect"]
              /\ pc' = [pc EXCEPT ![t] = "done"]
    /\ UNCHANGED <<now, backend, cached_token, token_expiry, header, upstream, exchanges, sqlvars, stagevars, encvars, cachevars>>

\* pyodbc_client.py:73-74 (finally: conn.close()) / mssql_client.py:56 /
\* obo_sql_client.py:72 (the `with` block): whether the connection is still
\* open once the statement returned (ok) or raised
ConnOpenAfterLeakOnRaise(ok) == ~ok
ConnOpenAfter(ok) == FALSE

\* pyodbc_client.py:68-76 / mssql_client.py:60-65 / obo_sql_client.py:76-81
Execute(t) ==
    /\ pc[t] = "execute"
    /\ \E ok \in BOOLEAN :
         loc' = [loc EXCEPT ![t].n_exec = @ + 1,
                           ![t].conn_open = ConnOpenAfter(ok),
                           ![t].outcome = IF ok THEN "ok" ELSE "raise",
                           ![t].err = IF ok THEN "none" ELSE "query"]
    /\ pc' = [pc EXCEPT ![t] = "done"]
    /\ UNCHANGED <<now, backend, cached_token, token_expiry, header, upstream, exchanges, sqlvars, stagevars, encvars, cachevars>>

\* ----------------------------------------------------------- environment

\* The clock: it advances between calls and while a call waits on the network.
Waiting(t) == pc[t] \in {"idle", "done", "exchange", "connect", "execute"}

Tick ==
    /\ now < MaxNow
    /\ \A t \in Threads : Waiting(t)
    /\ now' = now + 1
    /\ UNCHANGED <<backend, cached_token, token_expiry, header, upstream, exchanges, pc, loc, sqlvars, stagevars, encvars, cachevars>>

\* The request context of the next script run carries another header state.
SetHeader(h) ==
    /\ h # header
    /\ \A t \in Threads : pc[t] \in {"idle", "done"}
    /\ header' = h
    /\ UNCHANGED <<now, backend, cached_token, token_expiry, upstream, exchanges, pc, loc, sqlvars, stagevars, encvars, cachevars>>

\* ------------------------------------------------------- specifications

\* One session, one client, one query at a time.
Next ==
    \/ BeginRunQuery(MainThread)
    \/ ReadDeadline(MainThread)
    \/ Check(MainThread)
    \/ Provide(MainThread)
    \/ Exchange(MainThread)
    \/ StoreToken(MainThread)
    \/ StoreExpiry(MainThread)
    \/ ReturnToken(MainThread)
    \/ Connect(MainThread)
    \/ Execute(MainThread)
    \/ Tick
    \/ \E h \in HeaderValues : SetHeader(h)

Init == TokInit /\ SqlInit /\ StageInit /\ EncIdle /\ CacheInit

Spec == Init /\ [][Next]_vars

\* Several threads call _ensure_valid_token on one client instance; the
\* interpreter may switch threads between any two statements.
NextConc ==
    \E t \in Threads :
        \/ BeginEnsure(t)
        \/ ReadDeadline(t)
        \/ Check(t)
        \/ Provide(t)
        \/ Exchange(t)
        \/ StoreToken(t)
        \/ StoreExpiry(t)
        \/ ReturnToken(t)

\* The race needs no failing exchange and no header: the identity provider
\* answers with a short-lived or a long-lived token.
InitConc ==
    /\ now = 0
    /\ backend = "base"
    /\ cached_token = NoToken
    /\ token_expiry = 0
    /\ header = "absent"
    /\ upstream = {r \in MsalResults : r.has_token /\ r.expires_in \in {1, REFRESH_BUFFER_SECS + 1}}
    /\ exchanges = <<>>
    /\ pc = [t \in Threads |-> "idle"]
    /\ loc = [t \in Threads |-> InitLoc]
    /\ SqlInit
    /\ StageInit
    /\ EncIdle
    /\ CacheInit

SpecConc == InitConc /\ [][NextConc]_vars

\* ------------------------------------------ SqlThings.read_tvf / run_query_df
\* The sessions of the process share one SqlThings engine and its pool.  Their
\* calls are taken one at a time: a call runs from its `with` to its return
\* before the next call starts.

\* common_sql.py:287-290: drop None and empty values, keep the mapping's order
NonEmptyPairNoneOnly(p) == p.value # "None"
NonEmptyPair(p) == p.value # "None" /\ p.value # ""

FilterContext(pairs) == SelectSeq(pairs, NonEmptyPair)

\* common_sql.py:256, 271: `if user_context:` (None and {} are falsy)
ContextTruthy(ctx) == ctx.given /\ ctx.pairs # <<>>

\* common_sql.py:257, 272, 295: set_user_context runs on the connection the
\* caller passes, the one its `with self.engine.connect()` opened
ContextConnectionOther == CHOOSE c \in Conns : c # sql_call.conn
ContextConnection == sql_call.conn

\* common_sql.py:255, 270: `with self.engine.connect()` (not engine.begin()):
\* the statements run in the transaction the connection began by itself, and
\* leaving the block closes the connection, which rolls that transaction back;
\* nothing in read_tvf / run_query_df commits
OnConnectionExit == "rolled_back"

Statement(c, kind, k, v, ok) ==
    [conn |-> c, kind |-> kind, key |-> k, value |-> v, ok |-> ok,
     held |-> c \notin pool_free]

\* loader names the data_loader function the call comes from ("none": a
\* direct call); well_formed says whether the schema argument is a schema name
SqlBegin(s, op, ctx, loader, well_formed) ==
    /\ sql_pc \in {"idle", "done"}
    /\ sql_call' = [InitSqlCall EXCEPT !.session = s, !.op = op, !.ctx = ctx,
                                       !.loader = loader,
                                       !.well_formed = well_formed]
    /\ sql_pc' = "open"
    /\ UNCHANGED <<pool_free, session_ctx, tokvars, stagevars, encvars, cachevars>>

\* common_sql.py:268: `if isinstance(query, str):` has no else branch; for a
\* query that is not a str, run_query_df falls off its end and returns None
OnQueryNotStr == "skipped"

SqlSkip(s, ctx, loader) ==
    /\ sql_pc \in {"idle", "done"}
    /\ sql_call' = [InitSqlCall EXCEPT !.session = s, !.op = "run_query_df",
                                       !.ctx = ctx, !.loader = loader,
                                       !.query_str = FALSE,
                                       !.outcome = OnQueryNotStr]
    /\ sql_pc' = "done"
    /\ UNCHANGED <<pool_free, session_ctx, tokvars, stagevars, encvars, cachevars>>

\* common_sql.py:248-253
ReadTvf(s) ==
    \E ctx \in ContextsOf(s) : SqlBegin(s, "read_tvf", ctx, "none", TRUE)

\* common_sql.py:267-269
RunQueryDf(s) ==
    \E ctx \in ContextsOf(s) :
        \/ SqlBegin(s, "run_query_df", ctx, "none", TRUE)
        \/ SqlSkip(s, ctx, "none")

\* data_loader.py:59-68: the mapping validate_env stores for the session
SessionUserContext(s) ==
    Context(<<Pair("source_app", "call-bell-report-app"),
              Pair("app_user", UserOf(s)), Pair("app_user_oid", "oid")>>)

\* data_loader.py:81-90, 101-148: the loaders that call read_tvf
TvfLoaders ==
    {"load_home_metrics", "load_live_locations", "load_locations",
     "load_room_metrics", "load_datalogs"}

\* data_loader.py:82-89 (and 102-110, 115-122, 127-134, 139-147):
\* etl_processor.read_tvf(st.session_state["user_context"], "call_bell",
\* "fn_...", ...).  read_tvf's user_context is keyword-only, so the mapping
\* binds to `schema`, "call_bell" to fn_name, and user_context stays None; the
\* SELECT is built from the mapping's repr in place of a schema name.
LoadViaReadTvf(s) ==
    \E l \in TvfLoaders : SqlBegin(s, "read_tvf", NoContext, l, FALSE)

\* data_loader.py:93-98: etl_processor.run_query_df(
\* st.session_state["user_context"], "SELECT..."): the mapping binds to
\* `query`, the SELECT text to `params`, and user_context stays None
LoadHomes(s) == SqlSkip(s, NoContext, "load_homes")

\* common_sql.py:255, 270: with self.engine.connect() as connection; a failed
\* connect_with_token logs (line 43) and raises
SqlOpen ==
    /\ sql_pc = "open"
    /\ \/ \E c \in pool_free :
            /\ pool_free' = pool_free \ {c}
            /\ sql_call' = [sql_call EXCEPT !.conn = c, !.holds = TRUE]
            /\ sql_pc' = IF ContextTruthy(sql_call.ctx)
                            /\ FilterContext(sql_call.ctx.pairs) # <<>>
                         THEN "set_context" ELSE "select"
       \/ /\ sql_call' = [sql_call EXCEPT !.n_logs = @ + 1, !.outcome = "raise",
                                          !.err = "connect"]
          /\ sql_pc' = "done"
          /\ UNCHANGED pool_free
    /\ UNCHANGED <<session_ctx, tokvars, stagevars, encvars, cachevars>>

\* common_sql.py:256-258, 271-273: set_user_context is called before the try
\* of read_tvf / run_query_df; when it raises, the call ends there
OnContextFailureSelect == "select"
OnContextFailure == "done"

\* common_sql.py:294-298: one sp_set_session_context call per filtered pair;
\* an error leaves read_tvf / run_query_df through the `with` (the connection
\* goes back to the pool), outside their try/except
SetUserContext ==
    /\ sql_pc = "set_context"
    /\ LET filtered == FilterContext(sql_call.ctx.pairs)
           p == filtered[sql_call.idx]
           c == ContextConnection
           last == sql_call.idx = Len(filtered)
       IN \E ok \in BOOLEAN :
            IF ok
            THEN /\ session_ctx' = [session_ctx EXCEPT ![c][p.key] = p.value]
                 /\ sql_call' = [sql_call EXCEPT
                       !.issued = Append(@, Statement(c, "ctx", p.key, p.value, TRUE)),
                       !.tx = "open",
                       !.idx = @ + 1]
                 /\ sql_pc' = IF last THEN "select" ELSE "set_context"
                 /\ UNCHANGED pool_free
            ELSE /\ sql_call' = [sql_call EXCEPT
                       !.issued = Append(@, Statement(c, "ctx", p.key, p.value, FALSE)),
                       !.tx = OnConnectionExit,
                       !.holds = FALSE,
                       !.outcome = "raise", !.err = "context"]
                 /\ pool_free' = pool_free \cup {sql_call.conn}
                 /\ sql_pc' = OnContextFailure
                 /\ UNCHANGED session_ctx
    /\ UNCHANGED <<tokvars, stagevars, encvars, cachevars>>

\* common_sql.py:258-263, 273-278: pd.read_sql on the connection; an error is
\* logged and re-raised; the `with` releases the connection either way
SqlSelect ==
    /\ sql_pc = "select"
    /\ \E ok \in {TRUE, FALSE} \ (IF sql_call.well_formed THEN {} ELSE {TRUE}) :
         sql_call' = [sql_call EXCEPT
           !.issued = Append(@, Statement(sql_call.conn, "select", "", "", ok)),
           !.tx = OnConnectionExit,
           !.holds = FALSE,
           !.n_logs = IF ok THEN @ ELSE @ + 1,
           !.outcome = IF ok THEN "ok" ELSE "raise",
           !.err = IF ok THEN "none" ELSE "query"]
    /\ pool_free' = pool_free \cup {sql_call.conn}
    /\ sql_pc' = "done"
    /\ UNCHANGED <<session_ctx, tokvars, stagevars, encvars, cachevars>>

NextSql ==
    \/ \E s \in Sessions : ReadTvf(s)
    \/ \E s \in Sessions : RunQueryDf(s)
    \/ \E s \in Sessions : LoadViaReadTvf(s)
    \/ \E s \in Sessions : LoadHomes(s)
    \/ SqlOpen
    \/ SetUserContext
    \/ SqlSelect

InitSql == InitConc

SpecSql == InitSql /\ [][NextSql]_vars

\* ------------------------------------- SqlThings staging uploads (one-shot)
\* An upload runs _upload_to_temp, the reconciliation procedure and the DROP,
\* each through its own `with self.engine.begin()`.

\* what the statement _execute_query runs can come back with: a database
\* error, no result set, a result set of no row, one row whose first column
\* is NULL / '' / 0, a JSON object, other JSON (a list, a number), text that
\* is not JSON, a value that is no text, or more than one row
ResultShapes ==
    {"db_error", "no_rows", "empty", "falsy", "json_dict", "json_other",
     "text", "non_text", "many_rows"}

\* common_sql.py:81-99: what _execute_query does with the result.
\* scalar_one_or_none() raises on more than one row, inside the try.
ExecuteQueryResult(shape) ==
    CASE shape \in {"db_error", "many_rows"} ->
            [raises |-> TRUE, value |-> "none", labelled |-> FALSE]
      [] shape \in {"no_rows", "empty", "falsy"} ->
            [raises |-> FALSE, value |-> "None", labelled |-> FALSE]
      [] shape = "json_dict" ->
            [raises |-> FALSE, value |-> "parsed", labelled |-> TRUE]
      [] shape = "json_other" ->
            [raises |-> FALSE, value |-> "parsed", labelled |-> FALSE]
      [] OTHER ->
            [raises |-> FALSE, value |-> "raw", labelled |-> FALSE]

\* common_sql.py:80, 126, 205, 215: `with self.engine.begin()` commits when
\* the block ends normally and rolls back when it raises
TransactionEndHeldOpen(ok) == IF ok THEN "open" ELSE "rolled_back"
TransactionEnd(ok) == IF ok THEN "committed" ELSE "rolled_back"

\* one statement of an upload and the fate of its transaction
Step(kind, n, existed, ok) ==
    [kind |-> kind, name |-> n, existed |-> existed, ok |-> ok,
     tx |-> TransactionEnd(ok), shape |-> "none", value |-> "none",
     labelled |-> FALSE]

\* a statement run through _execute_query
QueryStep(kind, n, shape) ==
    LET res == ExecuteQueryResult(shape)
    IN [Step(kind, n, TRUE, ~res.raises) EXCEPT
          !.shape = shape, !.value = res.value, !.labelled = res.labelled]

StageBegin(u, op, rows) ==
    /\ stage_pc[u] \in {"idle", "done"}
    /\ stage_call' = [stage_call EXCEPT ![u] =
                        [InitStageCall EXCEPT !.op = op, !.rows = rows,
                                              !.entry_tables = stage_tables]]
    /\ stage_pc' = [stage_pc EXCEPT ![u] =
                      CASE op \in TempUploads -> "upload"
                        [] op = "append_to_apps_stage" -> "append"
                        [] OTHER -> "truncate"]
    /\ UNCHANGED <<stage_tables, stage_perm, tokvars, sqlvars, encvars, cachevars>>

\* common_sql.py:151-152
UpsertData(u) == \E rows \in PayloadRows : StageBegin(u, "upsert_data", rows)

\* common_sql.py:162-163
MergeDataFull(u) == \E rows \in PayloadRows : StageBegin(u, "merge_data_full", rows)

\* common_sql.py:173-174
BulkUpdateScoped(u) == \E rows \in PayloadRows : StageBegin(u, "bulk_update_scoped", rows)

\* common_sql.py:185-186
MergeDataScoped(u) == \E rows \in PayloadRows : StageBegin(u, "merge_data_scoped", rows)

\* common_sql.py:209-212; the permanent table holds at most MaxPermRows rows
BeginAppendToAppsStage(u) ==
    \E rows \in PayloadRows :
        /\ stage_perm + rows <= MaxPermRows
        /\ StageBegin(u, "append_to_apps_stage", rows)

\* common_sql.py:201-204
BeginTruncateTable(u) == StageBegin(u, "truncate_table", 0)

\* common_sql.py:121-122: an empty frame is rejected before anything else
OnEmptyPayload == "raise"

\* common_sql.py:132: to_sql(..., if_exists="fail")
IfExistsReplace == "replace"
IfExists == "fail"

\* common_sql.py:121-125: the empty check, then the name: the clock to the
\* second and four hex digits of a uuid4; two uploads can draw the same name
UploadToTemp(u) ==
    /\ stage_pc[u] = "upload"
    /\ IF stage_call[u].rows = 0
       THEN /\ stage_call' = [stage_call EXCEPT
                                ![u].outcome = OnEmptyPayload,
                                ![u].err = IF OnEmptyPayload = "raise"
                                           THEN "empty" ELSE "none"]
            /\ stage_pc' = [stage_pc EXCEPT ![u] = "done"]
       ELSE \E n \in StageNames :
              /\ stage_call' = [stage_call EXCEPT ![u].name = n]
              /\ stage_pc' = [stage_pc EXCEPT ![u] = "write"]
    /\ UNCHANGED <<stage_tables, stage_perm, tokvars, sqlvars, encvars, cachevars>>

\* common_sql.py:152, 159 (163, 170; 174, 182; 186, 194): the procedure call
\* is the statement after _upload_to_temp
AfterUploadDrop == "drop"
AfterUpload == "proc"

\* common_sql.py:126-140: to_sql inside engine.begin(); a failure is logged
\* and re-raised
ToSql(u) ==
    /\ stage_pc[u] = "write"
    /\ LET n == stage_call[u].name
           existed == stage_tables[n].exists
       IN \E ok \in IF existed /\ IfExists = "fail" THEN {FALSE} ELSE BOOLEAN :
            IF ok
            THEN /\ stage_tables' = [stage_tables EXCEPT ![n] = Table(stage_call[u].rows)]
                 /\ stage_call' = [stage_call EXCEPT
                       ![u].steps = Append(@, Step("create", n, existed, TRUE))]
                 /\ stage_pc' = [stage_pc EXCEPT ![u] = AfterUpload]
            ELSE /\ stage_call' = [stage_call EXCEPT
                       ![u].steps = Append(@, Step("create", n, existed, FALSE)),
                       ![u].n_logs = @ + 1,
                       ![u].outcome = "raise",
                       ![u].err = IF existed THEN "exists" ELSE "write"]
                 /\ stage_pc' = [stage_pc EXCEPT ![u] = "done"]
                 /\ UNCHANGED stage_tables
    /\ UNCHANGED <<stage_perm, tokvars, sqlvars, encvars, cachevars>>

\* common_sql.py:159-160 (170-171, 182-183, 194-195): the DROP follows the
\* procedure call with no try/finally; when the call raises, the upload ends
OnProcFailureDrop == "drop"
OnProcFailure == "done"

\* common_sql.py:142-148 through _execute_query (73-99)
ExecuteStoredProcedure(u) ==
    /\ stage_pc[u] = "proc"
    /\ \E shape \in ResultShapes :
         LET step == QueryStep("proc", stage_call[u].name, shape) IN
         IF step.ok
         THEN /\ stage_call' = [stage_call EXCEPT ![u].steps = Append(@, step)]
              /\ stage_pc' = [stage_pc EXCEPT ![u] = "drop"]
         ELSE /\ stage_call' = [stage_call EXCEPT
                    ![u].steps = Append(@, step),
                    ![u].n_logs = @ + 1,
                    ![u].outcome = "raise",
                    ![u].err = "proc"]
              /\ stage_pc' = [stage_pc EXCEPT ![u] = OnProcFailure]
    /\ UNCHANGED <<stage_tables, stage_perm, tokvars, sqlvars, encvars, cachevars>>

\* the effect of DROP TABLE [temp].[n]
DropKeeps(tables, n) == tables
Drop(tables, n) == [tables EXCEPT ![n] = Absent]

\* common_sql.py:160 (171, 183, 195) through _execute_query (73-99); a DROP
\* has no result set
DropStagingTable(u) ==
    /\ stage_pc[u] = "drop"
    /\ \E shape \in {"db_error", "no_rows"} :
         LET step == QueryStep("drop", stage_call[u].name, shape) IN
         IF step.ok
         THEN /\ stage_tables' = Drop(stage_tables, stage_call[u].name)
              /\ stage_call' = [stage_call EXCEPT
                    ![u].steps = Append(@, step),
                    ![u].outcome = IF @ = "none" THEN "ok" ELSE @]
         ELSE /\ stage_call' = [stage_call EXCEPT
                    ![u].steps = Append(@, step),
                    ![u].n_logs = @ + 1,
                    ![u].outcome = "raise",
                    ![u].err = IF @ = "none" THEN "drop" ELSE @]
              /\ UNCHANGED stage_tables
    /\ stage_pc' = [stage_pc EXCEPT ![u] = "done"]
    /\ UNCHANGED <<stage_perm, tokvars, sqlvars, encvars, cachevars>>

\* common_sql.py:209-224: an empty frame makes the call return at once; the
\* write has no try/except, so a failure is raised without a log record
AppendToAppsStage(u) ==
    /\ stage_pc[u] = "append"
    /\ IF stage_call[u].rows = 0
       THEN /\ stage_call' = [stage_call EXCEPT ![u].outcome = "skipped"]
            /\ UNCHANGED stage_perm
       ELSE \E ok \in BOOLEAN :
              IF ok
              THEN /\ stage_perm' = stage_perm + stage_call[u].rows
                   /\ stage_call' = [stage_call EXCEPT
                         ![u].steps = Append(@, Step("append", 0, TRUE, TRUE)),
                         ![u].outcome = "ok"]
              ELSE /\ stage_call' = [stage_call EXCEPT
                         ![u].steps = Append(@, Step("append", 0, TRUE, FALSE)),
                         ![u].outcome = "raise",
                         ![u].err = "write"]
                   /\ UNCHANGED stage_perm
    /\ stage_pc' = [stage_pc EXCEPT ![u] = "done"]
    /\ UNCHANGED <<stage_tables, tokvars, sqlvars, encvars, cachevars>>

\* common_sql.py:201-207
TruncateTable(u) ==
    /\ stage_pc[u] = "truncate"
    /\ \E ok \in BOOLEAN :
         IF ok
         THEN /\ stage_perm' = 0
              /\ stage_call' = [stage_call EXCEPT
                    ![u].steps = Append(@, Step("truncate", 0, TRUE, TRUE)),
                    ![u].outcome = "ok"]
         ELSE /\ stage_call' = [stage_call EXCEPT
                    ![u].steps = Append(@, Step("truncate", 0, TRUE, FALSE)),
                    ![u].outcome = "raise",
                    ![u].err = "truncate"]
              /\ UNCHANGED stage_perm
    /\ stage_pc' = [stage_pc EXCEPT ![u] = "done"]
    /\ UNCHANGED <<stage_tables, tokvars, sqlvars, encvars, cachevars>>

\* One caller, one staging operation at a time.
NextStage ==
    \/ UpsertData(MainUploader)
    \/ MergeDataFull(MainUploader)
    \/ BulkUpdateScoped(MainUploader)
    \/ MergeDataScoped(MainUploader)
    \/ BeginAppendToAppsStage(MainUploader)
    \/ BeginTruncateTable(MainUploader)
    \/ UploadToTemp(MainUploader)
    \/ ToSql(MainUploader)
    \/ ExecuteStoredProcedure(MainUploader)
    \/ DropStagingTable(MainUploader)
    \/ AppendToAppsStage(MainUploader)
    \/ TruncateTable(MainUploader)

InitStage == InitConc

SpecStage == InitStage /\ [][NextStage]_vars

\* The inputs of the interleaved uploads: one-row payloads, and statements
\* that fail or come back with no result set.
ConcInputs ==
    \A u \in Uploaders :
        /\ stage_call[u].op # "none" => stage_call[u].rows = 1
        /\ \A j \in 1..Len(stage_call[u].steps) :
              stage_call[u].steps[j].shape \in {"none", "db_error", "no_rows"}

\* Several sessions upload through the one SqlThings of the process; their
\* statements interleave.
ConcUpsertData(u) == UpsertData(u) /\ ConcInputs'
ConcMergeDataScoped(u) == MergeDataScoped(u) /\ ConcInputs'
ConcUploadToTemp(u) == UploadToTemp(u) /\ ConcInputs'
ConcToSql(u) == ToSql(u) /\ ConcInputs'
ConcExecuteStoredProcedure(u) == ExecuteStoredProcedure(u) /\ ConcInputs'
ConcDropStagingTable(u) == DropStagingTable(u) /\ ConcInputs'

NextStageConc ==
    \E u \in Uploaders :
        \/ ConcUpsertData(u)
        \/ ConcMergeDataScoped(u)
        \/ ConcUploadToTemp(u)
        \/ ConcToSql(u)
        \/ ConcExecuteStoredProcedure(u)
        \/ ConcDropStagingTable(u)

InitStageConc == InitConc

SpecStageConc == InitStageConc /\ [][NextStageConc]_vars

\* ------------------------------------------------------------ token encoding
\* A token is a sequence of Unicode code points, bytes are sequences of
\* integers 0..255.

\* 'a', 'b', 'c', the euro sign (two bytes, high byte non-zero) and U+1F600
\* (outside the basic plane: a surrogate pair)
CodePoints == {97, 98, 99, 8364, 128512}

RECURSIVE SeqsUpTo(_, _)
SeqsUpTo(S, n) ==
    IF n = 0 THEN {<<>>}
    ELSE LET shorter == SeqsUpTo(S, n - 1)
         IN shorter \cup { Append(t, x) : t \in shorter, x \in S }

Tokens == SeqsUpTo(CodePoints, MaxTokenLen)

\* a 16-bit unit, low byte first
UnitLe(u) == <<u % 256, u \div 256>>

\* str.encode("utf-16-le") of one code point
EncodeCodePoint(cp) ==
    IF cp < 65536
    THEN UnitLe(cp)
    ELSE LET v == cp - 65536
         IN UnitLe(55296 + (v \div 1024)) \o UnitLe(56320 + (v % 1024))

\* token.encode("utf-16-le")
RECURSIVE Utf16Le(_)
Utf16Le(token) ==
    IF token = <<>> THEN <<>>
    ELSE EncodeCodePoint(Head(token)) \o Utf16Le(Tail(token))

\* n.to_bytes(4, byteorder="little")
ToBytes4Big(n) ==
    <<(n \div 16777216) % 256, (n \div 65536) % 256, (n \div 256) % 256, n % 256>>
ToBytes4Little(n) ==
    <<n % 256, (n \div 256) % 256, (n \div 65536) % 256, (n \div 16777216) % 256>>

\* struct.pack("<I", n)
StructPackI(n) ==
    <<n % 256, (n \div 256) % 256, (n \div 65536) % 256, (n \div 16777216) % 256>>

\* the `{k}s` field of struct.pack: the bytes cut or zero-padded to k
StructPackS(k, bytes) ==
    [i \in 1..k |-> IF i <= Len(bytes) THEN bytes[i] ELSE 0]

\* mssql_client.py:38-39
MssqlEncodeToken(token) ==
    LET token_bytes == Utf16Le(token)
    IN ToBytes4Little(Len(token_bytes)) \o token_bytes

\* pyodbc_client.py:45-46
PyodbcEncodeToken(token) ==
    LET token_bytes == Utf16Le(token)
    IN StructPackI(Len(token_bytes)) \o token_bytes

\* obo_sql_client.py:49-50
OboEncodeToken(token) ==
    LET token_bytes == Utf16Le(token)
    IN ToBytes4Little(Len(token_bytes)) \o token_bytes

\* common_sql.py:34-40: struct.pack(f"<I{len(token_bytes)}s", len(token_bytes),
\* token_bytes)
ConnectWithTokenPack(token) ==
    LET token_bytes == Utf16Le(token)
    IN StructPackI(Len(token_bytes)) \o StructPackS(Len(token_bytes), token_bytes)

Encode(e, token) ==
    CASE e = "mssql" -> MssqlEncodeToken(token)
      [] e = "pyodbc" -> PyodbcEncodeToken(token)
      [] e = "obo" -> OboEncodeToken(token)
      [] OTHER -> ConnectWithTokenPack(token)

EncodeWith(e) ==
    /\ ~enc_out[e].done
    /\ enc_out' = [enc_out EXCEPT ![e] = [done |-> TRUE, bytes |-> Encode(e, enc_token)]]
    /\ UNCHANGED <<enc_token, tokvars, sqlvars, stagevars, cachevars>>

\* mssql_client.py:54
MssqlRunQueryEncode == EncodeWith("mssql")

\* pyodbc_client.py:62
PyodbcRunQueryEncode == EncodeWith("pyodbc")

\* obo_sql_client.py:70
OboRunQueryEncode == EncodeWith("obo")

\* common_sql.py:34-41
ConnectWithToken == EncodeWith("sqlthings")

NextEnc ==
    \/ MssqlRunQueryEncode
    \/ PyodbcRunQueryEncode
    \/ OboRunQueryEncode
    \/ ConnectWithToken

\* the encoders are handed one token, any of the bounded token strings
InitEnc ==
    /\ now = 0
    /\ backend = "base"
    /\ cached_token = NoToken
    /\ token_expiry = 0
    /\ header = "absent"
    /\ upstream = {}
    /\ exchanges = <<>>
    /\ pc = [t \in Threads |-> "idle"]
    /\ loc = [t \in Threads |-> InitLoc]
    /\ SqlInit
    /\ StageInit
    /\ enc_token \in Tokens
    /\ enc_out = [e \in Encoders |-> NotEncoded]
    /\ CacheInit

SpecEnc == InitEnc /\ [][NextEnc]_vars

\* -------------------------------------------------- st.cache_data loaders
\* st.cache_data keeps one store per decorated function for the whole
\* process, shared by every session; an entry is keyed by the arguments of
\* the call and lives for ttl seconds.  st.session_state is read inside the
\* function body and is no part of the key.

\* the entry of the key is there and younger than the function's ttl
Fresh(k) == st_cache[k].present /\ cache_now - st_cache[k].at < Ttl(k[1])

\* what the key of an entry is built from: the function and its arguments
KeyOf(s, f, a) == <<f, a>>

\* A call of a decorated function: a fresh entry under the key is returned
\* without running the body; otherwise the body runs, and what it returns is
\* stored under the key.  A body that raises stores nothing.
CachedCall(s, f, a, body) ==
    LET k == KeyOf(s, f, a) IN
    IF Fresh(k)
    THEN /\ load_call' = [session |-> s, loader |-> f, arg |-> a, hit |-> TRUE,
                          outcome |-> "ok", value |-> st_cache[k].value]
         /\ UNCHANGED st_cache
    ELSE IF body.raises
    THEN /\ load_call' = [session |-> s, loader |-> f, arg |-> a, hit |-> FALSE,
                          outcome |-> "raise", value |-> NoValue]
         /\ UNCHANGED st_cache
    ELSE /\ load_call' = [session |-> s, loader |-> f, arg |-> a, hit |-> FALSE,
                          outcome |-> "ok", value |-> body.value]
         /\ st_cache' = [st_cache EXCEPT ![k] =
                           [present |-> TRUE, at |-> cache_now, value |-> body.value]]

\* app.py:159-162, 166-170: the body runs the query through the session's own
\* OboSqlClient, with the token of the session's delegated user: the rows are
\* the ones the database gives that user; run_query may raise
CachedLoadData(s) ==
    /\ \E a \in LoaderArgs("load_data"), ok \in BOOLEAN :
         CachedCall(s, "load_data", a,
                    [raises |-> ~ok,
                     value |-> [kind |-> "rows", owner |-> UserOf(s)]])
    /\ UNCHANGED <<cache_now, tokvars, sqlvars, stagevars, encvars>>

\* data_loader.py:81-90: the body calls read_tvf with the context mapping in
\* the place of the schema name; the SELECT built from it fails and read_tvf
\* raises
CachedLoadHomeMetrics(s) ==
    /\ \E a \in LoaderArgs("load_home_metrics") :
         CachedCall(s, "load_home_metrics", a,
                    [raises |-> TRUE, value |-> NoValue])
    /\ UNCHANGED <<cache_now, tokvars, sqlvars, stagevars, encvars>>

\* data_loader.py:93-98: the body calls run_query_df with the context mapping
\* in the place of the query; run_query_df returns None
CachedLoadHomes(s) ==
    /\ CachedCall(s, "load_homes", "()",
                  [raises |-> FALSE,
                   value |-> [kind |-> "None", owner |-> "nobody"]])
    /\ UNCHANGED <<cache_now, tokvars, sqlvars, stagevars, encvars>>

\* time passes between two script runs
CacheTick ==
    /\ cache_now + CacheTickSecs <= MaxCacheNow
    /\ cache_now' = cache_now + CacheTickSecs
    /\ UNCHANGED <<st_cache, load_call, tokvars, sqlvars, stagevars, encvars>>

NextCache ==
    \/ \E s \in Sessions : CachedLoadData(s)
    \/ \E s \in Sessions : CachedLoadHomeMetrics(s)
    \/ \E s \in Sessions : CachedLoadHomes(s)
    \/ CacheTick

InitCache == InitConc

SpecCache == InitCache /\ [][NextCache]_vars

\* ================================================================ claims

\* The call of caller t has left _ensure_valid_token: it returned a token or
\* the provider raised.
EnsureEnded(t) == loc[t].returned \/ loc[t].err = "exchange"

\* The expiry of the token with id k, as the flow that issued it gave it.
ExpiresAt(k) == exchanges[k].expires_on

\* C1: _ensure_valid_token invokes the provider if and only if no token is
\* cached or now > token_expiry - 300; when it does, it invokes it exactly
\* once, stores the returned token and expiry and returns the new token;
\* otherwise it returns the cached token and leaves the cache unchanged.  With
\* a cached token expiring at now + 301 the provider is not invoked, with one
\* expiring at now + 299 it is invoked exactly once.
C1_RefreshContract ==
    LET c == loc[MainThread] IN
    /\ EnsureEnded(MainThread) =>
         /\ (c.n_exch >= 1) <=>
              (c.entry_tok = NoToken \/ c.check_now > c.entry_exp - 300)
         /\ c.n_exch <= 1
    /\ (c.returned /\ c.n_exch = 1) =>
         /\ c.ret = c.resp
         /\ c.resp # c.entry_tok
         /\ cached_token = c.resp
         /\ token_expiry = ExpiresAt(c.resp)
         /\ c.ret_exp = ExpiresAt(c.resp)
    /\ (c.returned /\ c.n_exch = 0) =>
         /\ c.ret = c.entry_tok
         /\ cached_token = c.entry_tok
         /\ token_expiry = c.entry_exp
    /\ (c.returned /\ c.entry_tok # NoToken) =>
         /\ (c.entry_exp = c.check_now + 301 => c.n_exch = 0)
         /\ (c.entry_exp = c.check_now + 299 => c.n_exch = 1)

\* A cached token with 299 s left was replaced by exactly one exchange.
C1_Witness ==
    LET c == loc[MainThread] IN
    /\ c.returned
    /\ c.entry_tok # NoToken
    /\ c.entry_exp = c.check_now + 299
    /\ c.n_exch = 1
    /\ c.ret = c.resp

\* C2: token freshness.  With a clock that never moves backward and a flow
\* that never returns an already-expired token, no token _ensure_valid_token
\* returns has expires_at <= now at the moment it is returned.
FlowNeverReturnedExpired == \A k \in 1..Len(exchanges) : exchanges[k].live

C2_TokenFreshness ==
    LET c == loc[MainThread] IN
    (c.returned /\ FlowNeverReturnedExpired) => ExpiresAt(c.ret) > c.ret_at

\* A cached token is handed out again after the clock has advanced.
C2_Witness ==
    LET c == loc[MainThread] IN
    /\ c.returned
    /\ FlowNeverReturnedExpired
    /\ c.n_exch = 0
    /\ c.ret_at > 0
    /\ Len(exchanges) >= 2

\* C3: refresh buffer.  A token returned without invoking the provider in that
\* call expires at least 300 s after now; a token with less than 300 s left is
\* returned only when the refresh of that same call yielded it.
C3_RefreshBuffer ==
    LET c == loc[MainThread] IN
    c.returned =>
        /\ (c.n_exch = 0 => ExpiresAt(c.ret) >= c.ret_at + 300)
        /\ (ExpiresAt(c.ret) < c.ret_at + 300 => (c.n_exch = 1 /\ c.ret = c.resp))

\* The refresh itself yielded a token inside the buffer window, passed through.
C3_Witness ==
    LET c == loc[MainThread] IN
    /\ c.returned
    /\ c.n_exch = 1
    /\ c.ret = c.resp
    /\ ExpiresAt(c.ret) > c.ret_at
    /\ ExpiresAt(c.ret) < c.ret_at + 300

\* C4: under every interleaving of concurrent _ensure_valid_token calls on one
\* client, once the calls have completed the stored pair (_cached_token,
\* _token_expiry) comes from one single provider response.
AllCallsCompleted == \A t \in Threads : pc[t] \in {"idle", "done"}

C4_NoTornToken ==
    (AllCallsCompleted /\ cached_token # NoToken) =>
        token_expiry = ExpiresAt(cached_token)

\* C5: when concurrent callers race on a missing or stale cached token, the
\* provider is invoked at most twice for that refresh, however many callers.
ExchangesRacingOn(g) == {k \in 1..Len(exchanges) : exchanges[k].seen = g}

C5_AtMostOneExtraExchange ==
    \A g \in 0..Len(exchanges) : Cardinality(ExchangesRacingOn(g)) <= 2

\* C6: flow selection.  On every invocation of the provider the on-behalf-of
\* flow is used if and only if a delegation token is present in the request
\* context (the header holds a token: a missing or empty header holds none),
\* otherwise the client-credentials flow, and exactly one flow per call.
DelegationTokenPresent(h) == h = "user_token"

C6_FlowSelection ==
    \A t \in Threads :
        loc[t].n_exch >= 1 =>
            /\ loc[t].n_exch = 1
            /\ loc[t].flow \in {"obo", "client_credentials"}
            /\ (loc[t].flow = "obo") <=> DelegationTokenPresent(loc[t].hdr)
            /\ (loc[t].resp # NoToken => exchanges[loc[t].resp].flow = loc[t].flow)

\* The provider built by get_token_provider took the on-behalf-of flow.
C6_Witness ==
    LET c == loc[MainThread] IN
    /\ backend = "base"
    /\ c.hdr = "user_token"
    /\ c.flow = "obo"
    /\ c.resp # NoToken
    /\ Len(exchanges) >= 2
    /\ exchanges[1].flow = "client_credentials"

\* C7 as stated: when the header appears or disappears between two queries,
\* the token the client uses for its next query is one obtained through the
\* flow that matches the header state at that time.
FlowMatching(h) == IF DelegationTokenPresent(h) THEN "obo" ELSE "client_credentials"

C7_NextQueryUsesMatchingFlow ==
    LET c == loc[MainThread] IN
    c.returned => exchanges[c.ret].flow = FlowMatching(c.hdr)

\* C7 amended: the flow is chosen anew at every exchange: a query whose token
\* request refreshes uses a token of the flow matching the header at that
\* time; a query that finds the cached token outside the refresh buffer keeps
\* using it, whichever flow issued it.
C7_FlowChosenAtEachRefresh ==
    LET c == loc[MainThread] IN
    c.returned =>
        /\ (c.n_exch >= 1 => exchanges[c.ret].flow = FlowMatching(c.hdr))
        /\ (c.n_exch = 0 => c.ret = c.entry_tok)

\* The header changed between two queries and the refresh switched flow.
C7_Witness ==
    LET c == loc[MainThread] IN
    /\ c.returned
    /\ c.n_exch = 1
    /\ c.entry_tok # NoToken
    /\ exchanges[c.entry_tok].flow # exchanges[c.ret].flow
    /\ exchanges[c.ret].flow = FlowMatching(c.hdr)

\* C8: no retries.  A token request that refreshes makes exactly one exchange
\* attempt, run_query makes at most one connection attempt and one statement
\* execution, and a failed exchange, connection or statement ends the call
\* with the error at once.
C8_NoRetries ==
    \A t \in Threads :
        LET c == loc[t] IN
        /\ c.n_exch <= 1 /\ c.n_conn <= 1 /\ c.n_exec <= 1
        /\ (c.returned /\ c.refreshed) => c.n_exch = 1
        /\ c.err = "exchange" =>
             (pc[t] = "done" /\ c.outcome = "raise" /\ c.n_conn = 0 /\ c.n_exec = 0)
        /\ c.err = "connect" =>
             (pc[t] = "done" /\ c.outcome = "raise" /\ c.n_exec = 0)
        /\ c.err = "query" => (pc[t] = "done" /\ c.outcome = "raise")
        /\ c.outcome = "ok" => (c.err = "none" /\ pc[t] = "done")

\* A query whose refresh succeeded and whose one statement failed.
C8_Witness ==
    LET c == loc[MainThread] IN
    /\ pc[MainThread] = "done"
    /\ c.err = "query"
    /\ c.n_exch = 1 /\ c.n_conn = 1 /\ c.n_exec = 1

\* C9: in both flows, a response without an access token makes the flow fail
\* with an error carrying the upstream error code and description and no
\* {access_token, expires_on} result; a response with one is returned with
\* expires_on = now + the returned TTL in seconds.
Answered(t) == loc[t].msal # NoMsalResult

ReturnedTtl(r) == IF r.expires_in = NoExpiresIn THEN 0 ELSE r.expires_in

C9_ExchangeOutcome ==
    \A t \in Threads :
        LET c == loc[t] IN
        Answered(t) =>
            /\ ~c.msal.has_token =>
                 /\ c.outcome = "raise" /\ c.err = "exchange"
                 /\ c.err_code = c.msal.error
                 /\ c.err_desc = c.msal.error_description
                 /\ c.resp = NoToken /\ ~c.returned
            /\ c.msal.has_token =>
                 /\ c.resp # NoToken
                 /\ c.err # "exchange"
                 /\ c.resp_exp = c.exch_at + ReturnedTtl(c.msal)
                 /\ exchanges[c.resp].expires_on = c.exch_at + ReturnedTtl(c.msal)

\* The on-behalf-of exchange came back without a token, some time into the run.
C9_Witness ==
    LET c == loc[MainThread] IN
    /\ Answered(MainThread)
    /\ c.flow = "obo"
    /\ ~c.msal.has_token
    /\ c.err_code = "invalid_grant"
    /\ c.exch_at > 0

\* ----------------------------------------------------- identity propagation

\* the statements of the call in progress that came before its i-th
CtxCallsBefore(i) ==
    { j \in 1..(i - 1) : sql_call.issued[j].kind = "ctx" }

\* C10: when read_tvf or run_query_df is given an identity context, the
\* statements it issues are one session-context-set call per pair whose value
\* is neither None nor empty, in the mapping's order, followed by the main
\* SELECT; each of them runs on the one connection the call opened, while the
\* call holds it; the SELECT is issued only after every such call succeeded,
\* and a call that returns a result has issued them all.
C10_ContextBeforeSelectSameConnection ==
    (sql_call.op \in {"read_tvf", "run_query_df"} /\ sql_call.ctx.given) =>
        LET filtered == FilterContext(sql_call.ctx.pairs)
            issued == sql_call.issued
        IN /\ Len(issued) <= Len(filtered) + 1
           /\ \A i \in 1..Len(issued) :
                /\ issued[i].conn = sql_call.conn
                /\ issued[i].held
                /\ i <= Len(filtered) =>
                     /\ issued[i].kind = "ctx"
                     /\ issued[i].key = filtered[i].key
                     /\ issued[i].value = filtered[i].value
                /\ i = Len(filtered) + 1 =>
                     /\ issued[i].kind = "select"
                     /\ Cardinality(CtxCallsBefore(i)) = Len(filtered)
                     /\ \A j \in CtxCallsBefore(i) : issued[j].ok
           /\ sql_call.outcome = "ok" => Len(issued) = Len(filtered) + 1

\* a read_tvf call given the three-pair production context has returned its
\* result: three context calls and the SELECT were issued
C10_Witness ==
    /\ sql_pc = "done"
    /\ sql_call.op = "read_tvf"
    /\ sql_call.outcome = "ok"
    /\ sql_call.ctx.given
    /\ Len(FilterContext(sql_call.ctx.pairs)) = 3
    /\ Len(sql_call.issued) = 4
    /\ sql_call.issued[4].kind = "select"

\* the session-context-set calls the call in progress has issued for key k
CtxCallsFor(k) ==
    { j \in 1..Len(sql_call.issued) :
        sql_call.issued[j].kind = "ctx" /\ sql_call.issued[j].key = k }

\* set_user_context has run to its end: the main statement was issued
ContextApplied ==
    \E j \in 1..Len(sql_call.issued) : sql_call.issued[j].kind = "select"

\* C11: set_user_context issues a session-context-set call for a key only if
\* the key's value is neither None nor the empty string, at most one per key,
\* and once it has run to its end it has issued one, carrying the value, for
\* every such key; for {app_user: u, app_user_oid: "", source_app: None} the
\* calls issued are exactly one, for app_user.
C11_ContextFiltering ==
    (sql_call.ctx.given /\ sql_call.ctx.pairs # <<>>) =>
        /\ \A i \in 1..Len(sql_call.ctx.pairs) :
             LET p == sql_call.ctx.pairs[i]
                 kept == p.value # "None" /\ p.value # ""
             IN /\ Cardinality(CtxCallsFor(p.key)) <= 1
                /\ CtxCallsFor(p.key) # {} => kept
                /\ (ContextApplied /\ kept) =>
                     \E j \in CtxCallsFor(p.key) :
                        sql_call.issued[j].value = p.value /\ sql_call.issued[j].ok
        /\ \A j \in 1..Len(sql_call.issued) :
             sql_call.issued[j].kind = "ctx" =>
                \E i \in 1..Len(sql_call.ctx.pairs) :
                   sql_call.ctx.pairs[i].key = sql_call.issued[j].key
        /\ ( /\ ContextApplied
             /\ sql_call.ctx.pairs =
                  <<Pair("app_user", UserOf(sql_call.session)),
                    Pair("app_user_oid", ""), Pair("source_app", "None")>> )
           => /\ Cardinality({j \in 1..Len(sql_call.issued) :
                                sql_call.issued[j].kind = "ctx"}) = 1
              /\ sql_call.issued[1].key = "app_user"

\* a call given {app_user: u, app_user_oid: "", source_app: None} has returned
\* its result after one context call and the SELECT
C11_Witness ==
    /\ sql_pc = "done"
    /\ sql_call.outcome = "ok"
    /\ Len(sql_call.ctx.pairs) = 3
    /\ sql_call.ctx.pairs[2].value = ""
    /\ sql_call.ctx.pairs[3].value = "None"
    /\ Len(sql_call.issued) = 2
    /\ sql_call.issued[1].kind = "ctx"
    /\ sql_call.issued[1].key = "app_user"

\* ------------------------------------------------- pooled session context

\* the keys the call in progress has itself set on its connection
KeysSetByCall ==
    { sql_call.issued[j].key : j \in { i \in 1..Len(sql_call.issued) :
          sql_call.issued[i].kind = "ctx" /\ sql_call.issued[i].ok } }

\* C12: a call's main statement never runs on a connection that still carries
\* a session-context key set by an earlier call: every key set on the
\* connection the SELECT ran on was set by the call itself.
C12_NoContextLeak ==
    ContextApplied =>
        \A k \in ContextKeys :
            session_ctx[sql_call.conn][k] # "unset" => k \in KeysSetByCall

\* ------------------------------------------------------ transaction scope

\* C13: a query operation that opened a connection has, when it ends,
\* committed its transaction if it returns normally and rolled it back if it
\* raises, and has released the connection in both cases.
C13_CommitOrRollbackThenRelease ==
    (sql_pc = "done" /\ sql_call.conn \in Conns) =>
        /\ sql_call.outcome = "ok" => sql_call.tx = "committed"
        /\ sql_call.outcome = "raise" => sql_call.tx = "rolled_back"
        /\ ~sql_call.holds
        /\ sql_call.conn \in pool_free

\* ---------------------------------------------------- no swallowed failure

\* C14: a core operation ends either by raising or by returning the result of
\* the work it was asked for; it never returns a default in place of doing
\* the work.  Here: a read call that has ended either raised or returned the
\* rows of a SELECT it executed.
C14_NoDefaultInPlaceOfWork ==
    sql_pc = "done" =>
        \/ sql_call.outcome = "raise"
        \/ /\ sql_call.outcome = "ok"
           /\ \E j \in 1..Len(sql_call.issued) :
                sql_call.issued[j].kind = "select" /\ sql_call.issued[j].ok

\* ------------------------------------------------ data_loader and identity

\* C19: every query a data_loader function issues consumes the session's
\* identity context: once the loader's call has issued its SELECT, a
\* session-context-set call carrying each non-empty value of the session's
\* user_context has been issued by that call.
C19_LoadersConsumeIdentity ==
    (sql_call.loader # "none" /\ ContextApplied)
    => LET pairs == SessionUserContext(sql_call.session).pairs IN
       \A i \in 1..Len(pairs) :
          (pairs[i].value # "None" /\ pairs[i].value # "") =>
             \E j \in CtxCallsFor(pairs[i].key) :
                sql_call.issued[j].value = pairs[i].value

\* --------------------------------------------------------- staging uploads

\* the steps of kind k the upload in progress has run
StepsOfKind(k) ==
    { j \in 1..Len(stage_call[MainUploader].steps) : stage_call[MainUploader].steps[j].kind = k }

\* C15: a staging upload (the four one-shot uploads and the permanent-stage
\* append) called with a zero-row payload ends by raising the empty-payload
\* error, having created or written no table and invoked no procedure.
C15_EmptyPayloadRejected ==
    ( /\ stage_pc[MainUploader] = "done"
      /\ stage_call[MainUploader].op \in TempUploads \cup {"append_to_apps_stage"}
      /\ stage_call[MainUploader].rows = 0 )
    => /\ stage_call[MainUploader].outcome = "raise"
       /\ stage_call[MainUploader].err = "empty"
       /\ stage_call[MainUploader].steps = <<>>
       /\ stage_tables = stage_call[MainUploader].entry_tables

\* C16: when one of the four one-shot uploads returns normally, the staging
\* table with the name generated for that call no longer exists.
C16_StagingDroppedOnSuccess ==
    ( /\ stage_pc[MainUploader] = "done"
      /\ stage_call[MainUploader].op \in TempUploads
      /\ stage_call[MainUploader].outcome = "ok" )
    => /\ stage_call[MainUploader].name \in StageNames
       /\ ~stage_tables[stage_call[MainUploader].name].exists
       /\ StepsOfKind("drop") # {}

\* an upsert of a non-empty payload has returned normally after the staging
\* write, the procedure call and the DROP
C16_Witness ==
    /\ stage_pc[MainUploader] = "done"
    /\ stage_call[MainUploader].op = "upsert_data"
    /\ stage_call[MainUploader].outcome = "ok"
    /\ stage_call[MainUploader].rows > 0
    /\ Len(stage_call[MainUploader].steps) = 3
    /\ stage_call[MainUploader].steps[1].ok

\* C17: when the reconciliation procedure call of an upload raises, the DROP
\* is never reached: the upload ends by raising with no DROP issued, and the
\* staging table it created still exists, holding the committed payload rows.
C17_StagingLeakedOnProcFailure ==
    stage_call[MainUploader].err = "proc" =>
        /\ stage_call[MainUploader].op \in TempUploads
        /\ stage_pc[MainUploader] = "done"
        /\ stage_call[MainUploader].outcome = "raise"
        /\ StepsOfKind("drop") = {}
        /\ stage_call[MainUploader].steps[1].kind = "create"
        /\ stage_call[MainUploader].steps[1].tx = "committed"
        /\ stage_tables[stage_call[MainUploader].name] = Table(stage_call[MainUploader].rows)

\* a merge_data_scoped call has raised from its procedure call and its
\* staging table is still there
C17_Witness ==
    /\ stage_pc[MainUploader] = "done"
    /\ stage_call[MainUploader].op = "merge_data_scoped"
    /\ stage_call[MainUploader].err = "proc"
    /\ stage_tables[stage_call[MainUploader].name].exists
    /\ ~stage_call[MainUploader].steps[2].ok

\* C18: an upload whose generated staging name is already taken when it
\* writes its payload fails as a whole: the write raises, every table of the
\* schema, the pre-existing one included, is as it was on entry, and the call
\* runs neither the procedure nor the DROP.
C18_ExistingStagingNotOverwritten ==
    \A j \in StepsOfKind("create") :
        stage_call[MainUploader].steps[j].existed =>
            /\ ~stage_call[MainUploader].steps[j].ok
            /\ stage_pc[MainUploader] = "done"
            /\ stage_call[MainUploader].outcome = "raise"
            /\ stage_tables = stage_call[MainUploader].entry_tables
            /\ stage_tables[stage_call[MainUploader].steps[j].name].exists
            /\ StepsOfKind("proc") = {}
            /\ StepsOfKind("drop") = {}

\* an upload has failed on a staging name left behind by an earlier upload
\* that carried a different payload
C18_Witness ==
    /\ stage_pc[MainUploader] = "done"
    /\ stage_call[MainUploader].err = "exists"
    /\ stage_call[MainUploader].rows > 0
    /\ \E n \in StageNames :
          /\ stage_tables[n].exists
          /\ stage_tables[n].rows # stage_call[MainUploader].rows
          /\ stage_call[MainUploader].steps[1].name = n

\* ------------------------------------------------------------ token encoding

\* the unsigned number four bytes spell, least significant byte first
LittleEndianValue(b) == b[1] + 256 * b[2] + 65536 * b[3] + 16777216 * b[4]

\* reading UTF-16-LE bytes back into code points
RECURSIVE Utf16LeDecode(_)
Utf16LeDecode(b) ==
    IF Len(b) < 2 THEN <<>>
    ELSE LET u == b[1] + 256 * b[2]
         IN IF u >= 55296 /\ u < 56320 /\ Len(b) >= 4
            THEN LET w == b[3] + 256 * b[4]
                 IN <<65536 + (u - 55296) * 1024 + (w - 56320)>>
                      \o Utf16LeDecode(SubSeq(b, 5, Len(b)))
            ELSE <<u>> \o Utf16LeDecode(SubSeq(b, 3, Len(b)))

\* C20: each encoder yields four bytes that spell, little-endian, the number
\* of bytes that follow, and those bytes are the token in UTF-16-LE (they read
\* back to the token, two bytes per basic-plane character and four per
\* character outside it); all encoders yield the same bytes; for 'abc' they
\* are 06 00 00 00 61 00 62 00 63 00.
C20_TokenEncoding ==
    \A e \in Encoders :
        enc_out[e].done =>
            LET out == enc_out[e].bytes
                body == SubSeq(out, 5, Len(out))
            IN /\ Len(out) >= 4
               /\ \A i \in 1..Len(out) : out[i] \in 0..255
               /\ LittleEndianValue(out) = Len(body)
               /\ Utf16LeDecode(body) = enc_token
               /\ Len(body) = 2 * Len(enc_token)
                     + 2 * Cardinality({i \in 1..Len(enc_token) : enc_token[i] >= 65536})
               /\ \A f \in Encoders : enc_out[f].done => enc_out[f].bytes = out
               /\ enc_token = <<97, 98, 99>> =>
                     out = <<6, 0, 0, 0, 97, 0, 98, 0, 99, 0>>

\* all four encoders have encoded a token holding a character outside the
\* basic plane and one whose high byte is not zero
C20_Witness ==
    /\ \A e \in Encoders : enc_out[e].done
    /\ Len(enc_token) = MaxTokenLen
    /\ \E i \in 1..Len(enc_token) : enc_token[i] >= 65536
    /\ \E i \in 1..Len(enc_token) : enc_token[i] = 8364

\* ------------------------------------------------------------ result shape

\* C21: for a statement run through _execute_query: when it yields a single
\* scalar that parses as JSON, the parsed structure is returned with the label
\* attached; when it yields rows of any other kind (a scalar that is not JSON,
\* or more than one row), the raw result is returned: it neither raises nor
\* returns nothing.
C21_ResultShape ==
    \A j \in 1..Len(stage_call[MainUploader].steps) :
        LET step == stage_call[MainUploader].steps[j] IN
        /\ step.shape \in {"json_dict", "json_other"} =>
              step.ok /\ step.value = "parsed" /\ step.labelled
        /\ step.shape \in {"text", "non_text", "many_rows"} =>
              step.ok /\ step.value = "raw"

\* --------------------------------------------------------- staging protocol

\* the call of the caller is a one-shot upload
TempUploadCall == stage_call[MainUploader].op \in TempUploads

ProtocolOrder == <<"create", "proc", "drop">>

\* C22: the statements of a one-shot upload run in the order create,
\* procedure, drop, all on the staging name of the call; the procedure runs
\* right after the table was created and holds the payload, the DROP runs only
\* after the procedure returned, and an upload that returns has run exactly
\* one procedure call between the create and the drop.
C22_CreateProcDrop ==
    TempUploadCall =>
        LET call == stage_call[MainUploader]
            steps == call.steps
        IN /\ Len(steps) <= Len(ProtocolOrder)
           /\ \A j \in 1..Len(steps) :
                 /\ steps[j].kind = ProtocolOrder[j]
                 /\ steps[j].name = call.name
                 /\ j > 1 => steps[j - 1].ok
           /\ stage_pc[MainUploader] = "proc" =>
                 /\ Len(steps) = 1
                 /\ stage_tables[call.name] = Table(call.rows)
           /\ stage_pc[MainUploader] = "drop" => Len(steps) = 2
           /\ call.outcome = "ok" =>
                 /\ Len(steps) = 3
                 /\ Cardinality({j \in 1..Len(steps) : steps[j].kind = "proc"}) = 1

C22_Witness ==
    /\ TempUploadCall
    /\ stage_pc[MainUploader] = "done"
    /\ stage_call[MainUploader].outcome = "ok"
    /\ Len(stage_call[MainUploader].steps) = 3
    /\ stage_call[MainUploader].steps[3].kind = "drop"

\* C23: no two uploads in progress use the same staging table name.
InProgress(u) == stage_pc[u] \in {"write", "proc", "drop"}

C23_NamesUnique ==
    \A u, v \in Uploaders :
        (u # v /\ InProgress(u) /\ InProgress(v)) =>
            stage_call[u].name # stage_call[v].name

\* C28: the staging write, the procedure and the DROP of an upload are three
\* transactions, each ended before the next statement starts: a statement
\* that succeeded is committed, one that raised is rolled back.  When the
\* DROP fails, the procedure's work stays committed, the staging table still
\* exists and the error reaches the caller.
C28_ThreeTransactions ==
    TempUploadCall =>
        LET call == stage_call[MainUploader]
            steps == call.steps
        IN /\ \A j \in 1..Len(steps) :
                 /\ steps[j].tx = (IF steps[j].ok THEN "committed" ELSE "rolled_back")
                 /\ j < Len(steps) => steps[j].tx = "committed"
           /\ call.err = "drop" =>
                 /\ Len(steps) = 3
                 /\ steps[1].kind = "create" /\ steps[1].tx = "committed"
                 /\ steps[2].kind = "proc" /\ steps[2].tx = "committed"
                 /\ steps[3].kind = "drop" /\ steps[3].tx = "rolled_back"
                 /\ stage_tables[call.name].exists
                 /\ call.outcome = "raise"

C28_Witness ==
    /\ TempUploadCall
    /\ stage_pc[MainUploader] = "done"
    /\ stage_call[MainUploader].err = "drop"
    /\ stage_call[MainUploader].steps[2].tx = "committed"
    /\ stage_tables[stage_call[MainUploader].name].exists

\* ------------------------------------------------------------------ logging

\* C24: a read_tvf / run_query_df call that fails, at whichever step (opening
\* the connection, setting the session context, the main statement), has
\* written exactly one error log record when the error reaches its caller.
C24_OneLogPerFailure ==
    (sql_pc = "done" /\ sql_call.outcome = "raise") => sql_call.n_logs = 1

\* ------------------------------------------------------- failed refresh

\* C25: when the provider raises during a refresh, the cached token and its
\* expiry are what they were when the call started, the call returns no
\* token and opens no connection, and the cache still asks for a refresh: the
\* next call invokes the provider again.
C25_FailedRefreshLeavesCache ==
    LET c == loc[MainThread] IN
    c.err = "exchange" =>
        /\ c.refreshed
        /\ cached_token = c.entry_tok
        /\ token_expiry = c.entry_exp
        /\ ~c.returned
        /\ c.ret = NoToken
        /\ pc[MainThread] = "done"
        /\ c.outcome = "raise"
        /\ \/ cached_token = NoToken
           \/ now > token_expiry - REFRESH_BUFFER_SECS

\* a refresh failed while a token obtained earlier was in the cache
C25_Witness ==
    LET c == loc[MainThread] IN
    /\ c.err = "exchange"
    /\ pc[MainThread] = "done"
    /\ c.entry_tok # NoToken
    /\ cached_token = c.entry_tok

\* ------------------------------------------------------- short-lived tokens

\* the call of the caller refreshed, stored and returned a token whose
\* response gave a TTL of at most the refresh buffer (or none)
ShortTtlStored ==
    LET c == loc[MainThread] IN
    /\ c.refreshed
    /\ c.msal.has_token
    /\ c.returned
    /\ cached_token = c.resp
    /\ ReturnedTtl(c.msal) <= REFRESH_BUFFER_SECS

\* a call starting now would invoke the provider
WouldRefresh == cached_token = NoToken \/ now > token_expiry - REFRESH_BUFFER_SECS

\* C26 as stated: after a response with a token and no expires_in, or a TTL
\* of at most 300 s, the stored expiry is at most 300 s after the response
\* and every later call invokes the provider again.
C26_ShortTtlNeverReused ==
    ShortTtlStored =>
        /\ token_expiry <= loc[MainThread].exch_at + REFRESH_BUFFER_SECS
        /\ WouldRefresh

\* C26 amended: after such a response the stored expiry is at most 300 s
\* after the response; every later call invokes the provider again when the
\* TTL was missing or below 300 s; when it was exactly 300 s, a call invokes
\* the provider again only once the clock reads later than at the response,
\* and a call at the same clock reading reuses the cached token.
C26_ShortTtlRefreshedOnceClockMoves ==
    ShortTtlStored =>
        LET c == loc[MainThread] IN
        /\ token_expiry <= c.exch_at + REFRESH_BUFFER_SECS
        /\ ReturnedTtl(c.msal) < REFRESH_BUFFER_SECS => WouldRefresh
        /\ ReturnedTtl(c.msal) = REFRESH_BUFFER_SECS =>
              (WouldRefresh <=> now > c.exch_at)

\* a token with no expires_in was stored and returned, and the query ended
C26_Witness ==
    /\ ShortTtlStored
    /\ loc[MainThread].msal.expires_in = NoExpiresIn
    /\ pc[MainThread] = "done"
    /\ now > loc[MainThread].exch_at
    /\ WouldRefresh

\* ------------------------------------------------- context failure, cleanup

\* C29: when a session-context-set call fails, nothing more is issued on the
\* connection: the call ends with the error, the connection is back in the
\* pool, and a main statement is only ever issued after a context call for
\* every pair to set has succeeded.
C29_ContextFailureAbortsCall ==
    LET issued == sql_call.issued
        filtered == FilterContext(sql_call.ctx.pairs)
    IN \A i \in 1..Len(issued) :
         /\ (issued[i].kind = "ctx" /\ ~issued[i].ok) =>
               /\ i = Len(issued)
               /\ sql_pc = "done"
               /\ sql_call.outcome = "raise"
               /\ sql_call.err = "context"
               /\ ~sql_call.holds
               /\ sql_call.conn \in pool_free
         /\ (issued[i].kind = "select" /\ ContextTruthy(sql_call.ctx)) =>
               /\ i = Len(filtered) + 1
               /\ \A j \in 1..(i - 1) : issued[j].kind = "ctx" /\ issued[j].ok

\* the second of several context calls failed
C29_Witness ==
    /\ sql_pc = "done"
    /\ sql_call.err = "context"
    /\ Len(sql_call.issued) = 2
    /\ sql_call.issued[1].ok
    /\ ~sql_call.issued[2].ok
    /\ Len(FilterContext(sql_call.ctx.pairs)) = 3

\* C30: run_query obtains the token before it opens a connection, a failed
\* token acquisition opens none, it opens at most one, and the connection it
\* opened is closed when it returns or raises.
C30_TokenThenConnectionThenClose ==
    LET c == loc[MainThread] IN
    c.op = "run_query" =>
        /\ (pc[MainThread] = "connect" \/ c.n_conn > 0) =>
              c.returned /\ c.ret # NoToken
        /\ c.conn_open => c.n_conn = 1 /\ pc[MainThread] = "execute"
        /\ c.n_conn <= 1
        /\ c.err = "exchange" => c.n_conn = 0 /\ c.n_exec = 0
        /\ pc[MainThread] \in {"idle", "done"} => ~c.conn_open

\* the statement raised on the connection the call had opened
C30_Witness ==
    LET c == loc[MainThread] IN
    /\ c.op = "run_query"
    /\ pc[MainThread] = "done"
    /\ c.n_conn = 1
    /\ c.n_exec = 1
    /\ c.err = "query"
    /\ ~c.conn_open

\* ------------------------------------------------------------ cached loaders

\* C27: the rows a cached loader hands to a session are rows the database
\* gave to that session's own identity: a result set fetched for one user is
\* never returned to a session of another user.
C27_NoCrossIdentityRows ==
    (load_call.outcome = "ok" /\ load_call.value.kind = "rows") =>
        load_call.value.owner = UserOf(load_call.session)

====
